---- MODULE Spec2Model ----
(***************************************************************************)
(* Model of the comment-update entrypoint (update-comment-link.ts) and of  *)
(* the comment body formatter updateCommentBody it calls.                  *)
(*                                                                         *)
(* Text is modelled as a sequence of atoms.  An atom is a string that the  *)
(* formatter treats as a unit: a marker ("[View job run](", ")", "@"), a   *)
(* newline, a digit, a name, or a run of ordinary prose.  The module is    *)
(* ASCII, so the ellipsis of the working placeholder is written "...",     *)
(* the long dash of the job link line "--", its bullet "*" and the code    *)
(* quote around the branch name "~".                                       *)
(***************************************************************************)
EXTENDS Integers, Sequences, FiniteSets, TLC

VARIABLES
    pc,                 \* position of run() in update-comment-link.ts
    env,                \* process.env and the parsed GitHub context
    comment,            \* `comment` (lines 31, 45, 58): fetched or not, its body
    isPRReviewComment,  \* line 32
    branchInfo,         \* result of checkAndDeleteEmptyBranch (line 90)
    executionDetails,   \* line 99
    actionFailed,       \* line 104
    outputFile,         \* the output file as line 110 found it
    readThrew,          \* whether the catch of line 133 ran
    commentInput,       \* line 140
    updatedBody,        \* line 150
    formatCalls,        \* number of calls of updateCommentBody
    calls,              \* the requests and helper calls made so far, in order
    exitCode,           \* argument of process.exit, -1 while running
    fin,                \* formatter harness: the CommentUpdateInput
    fout,               \* formatter harness: updateCommentBody(fin)
    fpc                 \* formatter harness: position

vars == <<pc, env, comment, isPRReviewComment, branchInfo, executionDetails,
          actionFailed, outputFile, readThrew, commentInput, updatedBody,
          formatCalls, calls, exitCode, fin, fout, fpc>>

driverVars == <<pc, env, comment, isPRReviewComment, branchInfo, executionDetails,
                actionFailed, outputFile, readThrew, commentInput, updatedBody,
                formatCalls, calls, exitCode>>

harnessVars == <<fin, fout, fpc>>

-----------------------------------------------------------------------------
(* Bounds *)

\* a comment body is made of at most MaxFrags fragments
MaxFrags == 2
\* durations cover 0..MaxMinutes whole minutes plus a remainder
MaxMinutes == 2
\* the output file holds at most MaxRecords records
MaxRecords == 2

-----------------------------------------------------------------------------
(* Atoms *)

None == "<none>"
NL == "\n"
Sep == "---"
Working == "Claude Code is working..."
Spinner == " <img src='spinner.gif' />"
At == "@"
JobRunOpen == "[View job run]("
BranchOpen == "[View branch]("
Close == ")"
JobOpen == "-- [View job]("
BulletOpen == "* [~"
BulletMid == "~]("
GitHubBase == "https://github.com/"
Slash == "/"
RunsPath == "/actions/runs/"
TreePath == "/tree/"
FinishedOpen == "**Claude finished "
UserTask == "'s task"
TheTask == "the task"
ErrorOpen == "**Claude encountered an error"
InClause == " in "
AfterClause == " after "
Bold == "**"

DigitChars == <<"0", "1", "2", "3", "4", "5", "6", "7", "8", "9">>

\* atoms made of word characters, hyphens and underscores only
UserNames == {"testuser", "trigger-user"}
BranchNames == {"claude-branch-123", "branch-name"}
WordAtoms == UserNames \cup BranchNames \cup {"owner", "repo", "123"}
                 \cup {DigitChars[i] : i \in 1..10}

-----------------------------------------------------------------------------
(* Sequence helpers *)

\* least index >= i of atom a in s, 0 when there is none
RECURSIVE IndexFrom(_, _, _)
IndexFrom(s, a, i) ==
    IF i > Len(s) THEN 0
    ELSE IF s[i] = a THEN i
    ELSE IndexFrom(s, a, i + 1)

IndexOf(s, a) == IndexFrom(s, a, 1)

\* t occurs in s at index i
OccursAt(s, t, i) ==
    /\ i >= 1
    /\ i + Len(t) - 1 <= Len(s)
    /\ SubSeq(s, i, i + Len(t) - 1) = t

\* number of occurrences of the non-empty t in s
Count(s, t) == Cardinality({i \in 1..Len(s) : OccursAt(s, t, i)})

RECURSIVE Flatten(_)
Flatten(ss) == IF ss = <<>> THEN <<>> ELSE Head(ss) \o Flatten(Tail(ss))

RECURSIVE Filter(_, _)
Filter(s, keep) ==
    IF s = <<>> THEN <<>>
    ELSE (IF Head(s) \in keep THEN <<Head(s)>> ELSE <<>>) \o Filter(Tail(s), keep)

-----------------------------------------------------------------------------
(* The formatter, updateCommentBody (github/operations/comment-logic)      *)

\* decimal rendering of a natural number, most significant digit first
RECURSIVE ToDigits(_)
ToDigits(n) ==
    IF n < 10 THEN <<DigitChars[n + 1]>>
    ELSE ToDigits(n \div 10) \o <<DigitChars[(n % 10) + 1]>>

\* FormatDuration rounding to the nearest second instead of rounding down
FormatDurationRounded(ms) ==
    LET totalSeconds == (ms + 500) \div 1000
    IN IF ms < 60000
       THEN ToDigits(totalSeconds) \o <<"s">>
       ELSE ToDigits(totalSeconds \div 60) \o <<"m", " ">>
                \o ToDigits(totalSeconds % 60) \o <<"s">>

\* "{seconds}s" below one minute, "{minutes}m {seconds}s" from one minute on
FormatDuration(ms) ==
    IF ms < 60000
    THEN ToDigits(ms \div 1000) \o <<"s">>
    ELSE ToDigits(ms \div 60000) \o <<"m", " ">>
             \o ToDigits((ms % 60000) \div 1000) \o <<"s">>

\* the duration clause's text, empty when no positive duration_ms is known
DurationStr(details) ==
    IF details.isNull \/ ~details.has_duration_ms \/ details.duration_ms <= 0
    THEN <<>>
    ELSE FormatDuration(details.duration_ms)

\* index of the last atom of the first working placeholder, 0 when none
PlaceholderEnd(body) ==
    LET i == IndexOf(body, Working)
    IN IF i = 0 THEN 0
       ELSE IF i < Len(body) /\ body[i + 1] = Spinner THEN i + 1 ELSE i

\* first "@" followed by a word at an index >= i, as the word; None when none
RECURSIVE MentionFrom(_, _)
MentionFrom(body, i) ==
    IF i >= Len(body) THEN None
    ELSE IF body[i] = At /\ body[i + 1] \in WordAtoms THEN body[i + 1]
    ELSE MentionFrom(body, i + 1)

\* step 1: the supplied user, else the first mention after the placeholder
ResolveUsername(triggerUsername, body) ==
    IF triggerUsername # None THEN triggerUsername
    ELSE MentionFrom(body, PlaceholderEnd(body) + 1)

\* step 3: the header line
BuildHeader(failed, username, duration) ==
    IF failed
    THEN <<ErrorOpen>>
             \o (IF duration # <<>> THEN <<AfterClause>> \o duration ELSE <<>>)
             \o <<Bold>>
    ELSE <<FinishedOpen>>
             \o (IF username # None THEN <<At, username, UserTask>> ELSE <<TheTask>>)
             \o (IF duration # <<>> THEN <<InClause>> \o duration ELSE <<>>)
             \o <<Bold>>

\* step 4: the job link line
JobLinkLine(jobUrl) == <<JobOpen>> \o jobUrl \o <<Close>>

\* step 5: the branch named by the input, None when there is none
\* (branchName wins; else the atom after "/tree/" in the legacy link)
DetermineBranch(branchName, branchLink) ==
    IF branchName # None THEN branchName
    ELSE LET t == IndexOf(branchLink, TreePath)
         IN IF t > 0 /\ t < Len(branchLink) /\ branchLink[t + 1] # Close
            THEN branchLink[t + 1]
            ELSE None

\* owner and repo: the first two path segments of jobUrl after the host
UrlOwner(jobUrl) == jobUrl[2]
UrlRepo(jobUrl) == jobUrl[4]

\* step 5: the branch bullet line
BranchLine(jobUrl, branch) ==
    <<BulletOpen, branch, BulletMid, GitHubBase, UrlOwner(jobUrl), Slash,
      UrlRepo(jobUrl), TreePath, branch, Close>>

\* step 6: every working placeholder, with its adjacent spinner, removed
RECURSIVE StripPlaceholder(_)
StripPlaceholder(s) ==
    IF s = <<>> THEN <<>>
    ELSE IF Head(s) = Working
    THEN IF Len(s) >= 2 /\ s[2] = Spinner
         THEN StripPlaceholder(SubSeq(s, 3, Len(s)))
         ELSE StripPlaceholder(Tail(s))
    ELSE <<Head(s)>> \o StripPlaceholder(Tail(s))

\* steps 4, 5: every legacy link opened by `open` removed, from a newline
\* right before it up to its closing parenthesis
RECURSIVE StripLinks(_, _)
StripLinks(s, open) ==
    IF s = <<>> THEN <<>>
    ELSE LET at == IF Len(s) >= 2 /\ s[1] = NL /\ s[2] = open THEN 2 ELSE 1
             close == IndexFrom(s, Close, at + 1)
         IN IF s[at] = open /\ close > 0
            THEN StripLinks(SubSeq(s, close + 1, Len(s)), open)
            ELSE <<Head(s)>> \o StripLinks(Tail(s), open)

\* step 6: what is kept of currentBody: the placeholder goes, then the legacy
\* job links, then the legacy branch links (each stage is bound to its value
\* before the next one reads it)
RemainingBody(body) ==
    CHOOSE kept \in
        {StripLinks(noJob, BranchOpen) :
            noJob \in {StripLinks(noPlaceholder, JobRunOpen) :
                noPlaceholder \in {StripPlaceholder(body)}}} : TRUE

\* updateCommentBody with the remaining content put right under the links
\* and the separator after it
updateCommentBodyContentFirst(input) ==
    LET username == ResolveUsername(input.triggerUsername, input.currentBody)
        duration == DurationStr(input.executionDetails)
        branch == DetermineBranch(input.branchName, input.branchLink)
    IN BuildHeader(input.actionFailed, username, duration)
           \o <<NL>> \o JobLinkLine(input.jobUrl)
           \o (IF branch # None THEN <<NL>> \o BranchLine(input.jobUrl, branch)
               ELSE <<>>)
           \o <<NL>> \o RemainingBody(input.currentBody)
           \o <<NL, NL, Sep, NL>>

\* step 7: header, job link line, branch line if any, blank line, separator,
\* remaining content.  The lines of the header block are joined by single
\* newlines, so that one blank line precedes the separator with and without
\* a branch line, as step 7 requires.
updateCommentBody(input) ==
    LET username == ResolveUsername(input.triggerUsername, input.currentBody)
        duration == DurationStr(input.executionDetails)
        branch == DetermineBranch(input.branchName, input.branchLink)
    IN BuildHeader(input.actionFailed, username, duration)
           \o <<NL>> \o JobLinkLine(input.jobUrl)
           \o (IF branch # None THEN <<NL>> \o BranchLine(input.jobUrl, branch)
               ELSE <<>>)
           \o <<NL, NL, Sep, NL>>
           \o RemainingBody(input.currentBody)

-----------------------------------------------------------------------------
(* Values the driver and the formatter exchange *)

\* executionDetails = null (line 103)
NullDetails == [isNull |-> TRUE, has_duration_ms |-> FALSE, duration_ms |-> 0]

Details(hasDuration, ms) ==
    [isNull |-> FALSE, has_duration_ms |-> hasDuration, duration_ms |-> ms]

\* `${serverUrl}/${owner}/${repo}/actions/runs/${GITHUB_RUN_ID}` (line 29)
JobUrl == <<GitHubBase, "owner", Slash, "repo", RunsPath, "123">>

\* the legacy links found in older comment bodies
LegacyJobLink == <<JobRunOpen>> \o JobUrl \o <<Close>>
LegacyBranchLink(b) ==
    <<NL, BranchOpen, GitHubBase, "owner", Slash, "repo", TreePath, b, Close>>

\* the input before line 140 has built it
NoInput ==
    [currentBody |-> <<>>, actionFailed |-> FALSE, executionDetails |-> NullDetails,
     jobUrl |-> <<>>, branchLink |-> <<>>, branchName |-> None,
     triggerUsername |-> None]

-----------------------------------------------------------------------------
(* The driver, run() of update-comment-link.ts *)

CommentIds == {41, 42}

\* comment bodies GitHub may return; isNull is `body: null`
RemoteBodies ==
    { [isNull |-> TRUE, text |-> <<>>],
      [isNull |-> FALSE, text |-> <<Working, Spinner, NL, "### Todo List:">>],
      [isNull |-> FALSE, text |-> <<"Some comment">> \o LegacyJobLink] }

NoComment == [fetched |-> FALSE, via |-> "none", id |-> 0, body |-> <<>>]

\* the records of the output file: null, a non-system record, system records
\* lacking cost_usd or duration_ms, and complete system records
Elements ==
    { [isNull |-> TRUE, role |-> None, has_cost_usd |-> FALSE,
       has_duration_ms |-> FALSE, duration_ms |-> 0],
      [isNull |-> FALSE, role |-> "assistant", has_cost_usd |-> TRUE,
       has_duration_ms |-> TRUE, duration_ms |-> 65000],
      [isNull |-> FALSE, role |-> "system", has_cost_usd |-> FALSE,
       has_duration_ms |-> TRUE, duration_ms |-> 65000],
      [isNull |-> FALSE, role |-> "system", has_cost_usd |-> TRUE,
       has_duration_ms |-> FALSE, duration_ms |-> 0],
      [isNull |-> FALSE, role |-> "system", has_cost_usd |-> TRUE,
       has_duration_ms |-> TRUE, duration_ms |-> 65000] }

RECURSIVE SeqsUpTo(_, _)
SeqsUpTo(S, n) ==
    IF n = 0 THEN {<<>>}
    ELSE LET shorter == SeqsUpTo(S, n - 1)
         IN shorter \cup {Append(q, x) : q \in shorter, x \in S}

File(isSet, readable, validJson, isArray, items) ==
    [isSet |-> isSet, readable |-> readable, validJson |-> validJson,
     isArray |-> isArray, items |-> items]

\* OUTPUT_FILE unset; set but unreadable; not JSON; JSON but no array; an array
OutputFiles ==
    { File(FALSE, FALSE, FALSE, FALSE, <<>>),
      File(TRUE, FALSE, FALSE, FALSE, <<>>),
      File(TRUE, TRUE, FALSE, FALSE, <<>>),
      File(TRUE, TRUE, TRUE, FALSE, <<>>) }
    \cup {File(TRUE, TRUE, TRUE, TRUE, items) : items \in SeqsUpTo(Elements, MaxRecords)}

\* the file before line 110 has looked at it
UnreadFile == [isSet |-> FALSE, readable |-> FALSE, validJson |-> FALSE,
               isArray |-> FALSE, items |-> <<[isNull |-> TRUE, role |-> "unread",
               has_cost_usd |-> FALSE, has_duration_ms |-> FALSE, duration_ms |-> 0]>>]

\* lines 108-128: whether the try block throws, and the details it assigns
ParseOutput(file) ==
    IF ~file.isSet THEN [threw |-> FALSE, details |-> NullDetails]
    ELSE IF ~file.readable \/ ~file.validJson
    THEN [threw |-> TRUE, details |-> NullDetails]
    ELSE IF ~file.isArray \/ Len(file.items) = 0
    THEN [threw |-> FALSE, details |-> NullDetails]
    ELSE LET lastElement == file.items[Len(file.items)]
         IN IF lastElement.isNull
            THEN [threw |-> TRUE, details |-> NullDetails]
            ELSE IF /\ lastElement.role = "system"
                    /\ lastElement.has_cost_usd
                    /\ lastElement.has_duration_ms
            THEN [threw |-> FALSE,
                  details |-> Details(TRUE, lastElement.duration_ms)]
            ELSE [threw |-> FALSE, details |-> NullDetails]

Call(api, id, result, body) ==
    [api |-> api, id |-> id, result |-> result, body |-> body]

\* process.exit(code)
Exit(code) ==
    /\ pc' = "exited"
    /\ exitCode' = code

DriverInit ==
    /\ pc = "start"
    /\ env \in [isPREvent : BOOLEAN,
                commentId : CommentIds,
                claudeBranch : {None, "claude-branch-123"},
                CLAUDE_SUCCESS : {None, "true", "false"},
                triggerUsername : {None, "trigger-user"}]
    /\ comment = NoComment
    /\ isPRReviewComment = FALSE
    /\ branchInfo = [shouldDeleteBranch |-> FALSE, branchLink |-> <<>>]
    /\ executionDetails = NullDetails
    /\ actionFailed = FALSE
    /\ outputFile = UnreadFile
    /\ readThrew = FALSE
    /\ commentInput = NoInput
    /\ updatedBody = <<>>
    /\ formatCalls = 0
    /\ calls = <<>>
    /\ exitCode = -1

\* lines 18-29: parse the environment and the context; these may throw
Setup ==
    /\ pc = "start"
    /\ \E ok \in BOOLEAN :
          IF ok THEN pc' = "fetch" /\ exitCode' = exitCode
          ELSE Exit(1)
    /\ UNCHANGED <<env, comment, isPRReviewComment, branchInfo, executionDetails,
                   actionFailed, outputFile, readThrew, commentInput, updatedBody,
                   formatCalls, calls, harnessVars>>

\* lines 37-48: the review comment fetch of a review comment event
FetchReviewComment ==
    /\ pc = "fetch"
    /\ env.isPREvent
    /\ \E result \in {"ok", "empty", "throws"}, body \in RemoteBodies :
          /\ calls' = Append(calls, Call("pulls.getReviewComment", env.commentId,
                                         result, <<>>))
          /\ CASE result = "ok" ->
                    /\ comment' = [fetched |-> TRUE, via |-> "pulls",
                                   id |-> env.commentId, body |-> body.text]
                    /\ isPRReviewComment' = TRUE
                    /\ pc' = "branch"
               [] result = "empty" ->
                    /\ pc' = "fetchIssue"
                    /\ UNCHANGED <<comment, isPRReviewComment>>
               [] result = "throws" ->
                    /\ pc' = "fetchFailed"
                    /\ UNCHANGED <<comment, isPRReviewComment>>
    /\ UNCHANGED <<env, branchInfo, executionDetails, actionFailed, outputFile,
                   readThrew, commentInput, updatedBody, formatCalls, exitCode,
                   harnessVars>>

\* lines 51-61: the issue comment fetch, when `comment` is still unset
FetchIssueComment ==
    /\ \/ pc = "fetch" /\ ~env.isPREvent
       \/ pc = "fetchIssue"
    /\ \E result \in {"ok", "empty", "throws"}, body \in RemoteBodies :
          /\ calls' = Append(calls, Call("issues.getComment", env.commentId,
                                         result, <<>>))
          /\ CASE result = "ok" ->
                    /\ comment' = [fetched |-> TRUE, via |-> "issues",
                                   id |-> env.commentId, body |-> body.text]
                    /\ isPRReviewComment' = FALSE
                    /\ pc' = "branch"
               [] result = "empty" ->
                    /\ isPRReviewComment' = FALSE
                    /\ pc' = "branch"
                    /\ UNCHANGED comment
               [] result = "throws" ->
                    /\ pc' = "fetchFailed"
                    /\ UNCHANGED <<comment, isPRReviewComment>>
    /\ UNCHANGED <<env, branchInfo, executionDetails, actionFailed, outputFile,
                   readThrew, commentInput, updatedBody, formatCalls, exitCode,
                   harnessVars>>

\* FetchFailed with the rethrow of line 84 only when pulls.get fails too
FetchFailedSwallowed ==
    /\ pc = "fetchFailed"
    /\ \E result \in {"ok", "throws"} :
          /\ calls' = Append(calls, Call("pulls.get", 0, result, <<>>))
          /\ Exit(IF result = "ok" THEN 0 ELSE 1)
    /\ UNCHANGED <<env, comment, isPRReviewComment, branchInfo, executionDetails,
                   actionFailed, outputFile, readThrew, commentInput, updatedBody,
                   formatCalls, harnessVars>>

\* lines 62-85 and 181-184: log, ask for the pull request, rethrow, exit 1
FetchFailed ==
    /\ pc = "fetchFailed"
    /\ \E result \in {"ok", "throws"} :
          calls' = Append(calls, Call("pulls.get", 0, result, <<>>))
    /\ Exit(1)
    /\ UNCHANGED <<env, comment, isPRReviewComment, branchInfo, executionDetails,
                   actionFailed, outputFile, readThrew, commentInput, updatedBody,
                   formatCalls, harnessVars>>

\* lines 87-96: read the body (a TypeError when nothing was fetched), then
\* checkAndDeleteEmptyBranch, which answers or throws
BranchCheck ==
    /\ pc = "branch"
    /\ IF ~comment.fetched
       THEN Exit(1) /\ UNCHANGED <<branchInfo, calls>>
       ELSE \E answer \in
                {"throws", "none"} \cup
                (IF env.claudeBranch # None THEN {"link", "delete"} ELSE {}) :
               /\ calls' = Append(calls,
                      Call("checkAndDeleteEmptyBranch", 0,
                           IF answer = "throws" THEN "throws" ELSE "ok", <<>>))
               /\ CASE answer = "throws" -> Exit(1) /\ UNCHANGED branchInfo
                    [] answer = "none" ->
                         /\ branchInfo' = [shouldDeleteBranch |-> FALSE,
                                           branchLink |-> <<>>]
                         /\ pc' = "read" /\ exitCode' = exitCode
                    [] answer = "link" ->
                         /\ branchInfo' =
                                [shouldDeleteBranch |-> FALSE,
                                 branchLink |-> LegacyBranchLink(env.claudeBranch)]
                         /\ pc' = "read" /\ exitCode' = exitCode
                    [] answer = "delete" ->
                         /\ branchInfo' = [shouldDeleteBranch |-> TRUE,
                                           branchLink |-> <<>>]
                         /\ pc' = "read" /\ exitCode' = exitCode
    /\ UNCHANGED <<env, comment, isPRReviewComment, executionDetails, actionFailed,
                   outputFile, readThrew, commentInput, updatedBody, formatCalls,
                   harnessVars>>

\* ReadOutputFile with the catch of line 133 rethrowing
ReadOutputFileFatal ==
    /\ pc = "read"
    /\ \E file \in OutputFiles :
          LET parsed == ParseOutput(file)
          IN /\ outputFile' = file
             /\ readThrew' = parsed.threw
             /\ executionDetails' = parsed.details
             /\ actionFailed' = (env.CLAUDE_SUCCESS = "false")
             /\ IF parsed.threw THEN Exit(1)
                ELSE pc' = "format" /\ exitCode' = exitCode
    /\ UNCHANGED <<env, comment, isPRReviewComment, branchInfo, commentInput,
                   updatedBody, formatCalls, calls, harnessVars>>

\* lines 98-137: read the output file; a throw is logged, not rethrown
ReadOutputFile ==
    /\ pc = "read"
    /\ \E file \in OutputFiles :
          LET parsed == ParseOutput(file)
          IN /\ outputFile' = file
             /\ readThrew' = parsed.threw
             /\ executionDetails' = parsed.details
             /\ IF parsed.threw
                THEN actionFailed' = (env.CLAUDE_SUCCESS = "false")
                ELSE LET claudeSuccess == env.CLAUDE_SUCCESS # "false"
                     IN actionFailed' = ~claudeSuccess
    /\ pc' = "format"
    /\ UNCHANGED <<env, comment, isPRReviewComment, branchInfo, commentInput,
                   updatedBody, formatCalls, calls, exitCode, harnessVars>>

\* lines 139-150: build the input and call the formatter
FormatBody ==
    /\ pc = "format"
    /\ LET input ==
               [currentBody |-> comment.body,
                actionFailed |-> actionFailed,
                executionDetails |-> executionDetails,
                jobUrl |-> JobUrl,
                branchLink |-> branchInfo.branchLink,
                branchName |-> IF branchInfo.shouldDeleteBranch THEN None
                               ELSE env.claudeBranch,
                triggerUsername |-> env.triggerUsername]
       IN /\ commentInput' = input
          /\ updatedBody' = updateCommentBody(input)
    /\ formatCalls' = formatCalls + 1
    /\ pc' = "update"
    /\ UNCHANGED <<env, comment, isPRReviewComment, branchInfo, executionDetails,
                   actionFailed, outputFile, readThrew, calls, exitCode,
                   harnessVars>>

\* UpdateComment with the issues API whatever the flag says
UpdateCommentIssuesOnly ==
    /\ pc = "update"
    /\ \E result \in {"ok", "throws"} :
          /\ calls' = Append(calls,
                 Call("issues.updateComment", env.commentId, result, updatedBody))
          /\ Exit(IF result = "ok" THEN 0 ELSE 1)
    /\ UNCHANGED <<env, comment, isPRReviewComment, branchInfo, executionDetails,
                   actionFailed, outputFile, readThrew, commentInput, updatedBody,
                   formatCalls, harnessVars>>

\* UpdateComment with the catch of line 172 not rethrowing
UpdateCommentSwallowed ==
    /\ pc = "update"
    /\ \E result \in {"ok", "throws"} :
          /\ calls' = Append(calls,
                 Call(IF isPRReviewComment THEN "pulls.updateReviewComment"
                      ELSE "issues.updateComment",
                      env.commentId, result, updatedBody))
          /\ Exit(0)
    /\ UNCHANGED <<env, comment, isPRReviewComment, branchInfo, executionDetails,
                   actionFailed, outputFile, readThrew, commentInput, updatedBody,
                   formatCalls, harnessVars>>

\* lines 152-184: update through the API the flag names; exit 0, or 1 on a throw
UpdateComment ==
    /\ pc = "update"
    /\ \E result \in {"ok", "throws"} :
          /\ calls' = Append(calls,
                 Call(IF isPRReviewComment THEN "pulls.updateReviewComment"
                      ELSE "issues.updateComment",
                      env.commentId, result, updatedBody))
          /\ Exit(IF result = "ok" THEN 0 ELSE 1)
    /\ UNCHANGED <<env, comment, isPRReviewComment, branchInfo, executionDetails,
                   actionFailed, outputFile, readThrew, commentInput, updatedBody,
                   formatCalls, harnessVars>>

HarnessOff ==
    /\ fin = NoInput
    /\ fout = <<>>
    /\ fpc = "off"

Init == DriverInit /\ HarnessOff

Next ==
    \/ Setup
    \/ FetchReviewComment
    \/ FetchIssueComment
    \/ FetchFailed
    \/ BranchCheck
    \/ ReadOutputFile
    \/ FormatBody
    \/ UpdateComment

Spec == Init /\ [][Next]_vars

\* every await of run() settles and its synchronous code runs on
FairSpec == Spec /\ WF_vars(Next)

-----------------------------------------------------------------------------
(* Properties of the driver *)

GetApis == {"pulls.getReviewComment", "issues.getComment"}
UpdateApis == {"pulls.updateReviewComment", "issues.updateComment"}

CallsOf(apis) == {i \in 1..Len(calls) : calls[i].api \in apis}

\* the catch of line 62 was entered: a comment fetch threw
FetchThrew == \E i \in CallsOf(GetApis) : calls[i].result = "throws"
ReviewFetchThrew ==
    \E i \in CallsOf({"pulls.getReviewComment"}) : calls[i].result = "throws"
UpdateIssued == CallsOf(UpdateApis) # {}
UpdateThrew == \E i \in CallsOf(UpdateApis) : calls[i].result = "throws"

\* C1: in a review comment event whose review comment fetch throws, the
\* issue comment fetch for the same comment id is attempted before the run
\* goes down the fetch-failure path.
C1_FallbackToIssueFetch ==
    (pc \in {"fetchFailed", "exited"} /\ ReviewFetchThrew)
        => \E i \in CallsOf({"pulls.getReviewComment"}),
              j \in CallsOf({"issues.getComment"}) :
                 /\ calls[i].result = "throws"
                 /\ i < j
                 /\ calls[j].id = calls[i].id

\* C2: a run whose comment fetch threw, or whose update call threw, exits
\* with status 1 whatever the diagnostic pulls.get answered; and once a
\* fetch has thrown the run only goes to the failure path and never issues
\* an update call.
C2_FailureExitsNonZero ==
    /\ (pc = "exited" /\ (FetchThrew \/ UpdateThrew)) => exitCode = 1
    /\ FetchThrew => (pc \in {"fetchFailed", "exited"} /\ ~UpdateIssued)

C2_Witness ==
    /\ pc = "exited"
    /\ FetchThrew
    /\ \E i \in CallsOf({"pulls.get"}) : calls[i].result = "ok"
    /\ exitCode = 1

\* the output file gives no execution details: it cannot be read, is not
\* JSON, is no non-empty array, or its last element is no system record
\* with cost_usd and duration_ms
MetadataUnusable(file) ==
    /\ file.isSet
    /\ \/ ~file.readable
       \/ ~file.validJson
       \/ ~file.isArray
       \/ file.items = <<>>
       \/ LET lastElement == file.items[Len(file.items)]
          IN \/ lastElement.isNull
             \/ lastElement.role # "system"
             \/ ~lastElement.has_cost_usd
             \/ ~lastElement.has_duration_ms

\* C3: once the output file has been looked at and gave no details, the
\* run goes on: executionDetails is null, actionFailed is exactly
\* (CLAUDE_SUCCESS = "false") as for a file read successfully, the formatter
\* is called once with executionDetails = null, and a run that has exited
\* has issued the update call.
C3_MetadataFailureNotFatal ==
    (outputFile # UnreadFile) =>
        /\ actionFailed = (env.CLAUDE_SUCCESS = "false")
        /\ MetadataUnusable(outputFile) =>
              /\ executionDetails = NullDetails
              /\ pc \in {"format", "update", "exited"}
              /\ pc \in {"update", "exited"} =>
                    /\ formatCalls = 1
                    /\ commentInput.executionDetails = NullDetails
                    /\ commentInput.actionFailed = (env.CLAUDE_SUCCESS = "false")
              /\ pc = "exited" => UpdateIssued

C3_Witness ==
    /\ pc = "exited"
    /\ readThrew
    /\ MetadataUnusable(outputFile)
    /\ env.CLAUDE_SUCCESS = "false"
    /\ UpdateIssued
    /\ exitCode = 0

\* C4: every update call goes through the API of the endpoint family the
\* comment was fetched from, for the comment id that fetch asked for; and
\* the update step is only reached with a fetched comment.
C4_UpdateMatchesFetch ==
    /\ pc = "update" => comment.fetched
    /\ \A u \in CallsOf(UpdateApis) :
          /\ comment.fetched
          /\ calls[u].api = "pulls.updateReviewComment" <=> comment.via = "pulls"
          /\ calls[u].api = "issues.updateComment" <=> comment.via = "issues"
          /\ calls[u].id = comment.id
          /\ \E g \in CallsOf(GetApis) :
                /\ g < u
                /\ calls[g].result = "ok"
                /\ calls[g].id = calls[u].id
                /\ calls[g].api = "pulls.getReviewComment"
                       <=> calls[u].api = "pulls.updateReviewComment"

C4_Witness ==
    /\ pc = "exited"
    /\ comment.via = "pulls"
    /\ \E u \in CallsOf(UpdateApis) : calls[u].api = "pulls.updateReviewComment"

\* what holds of every state of a run, for C10
C10_Safety ==
    /\ exitCode \in {-1, 0, 1}
    /\ pc = "exited" <=> exitCode # -1
    /\ Cardinality(CallsOf(UpdateApis)) <= 1
    /\ formatCalls <= 1
    /\ \A u \in CallsOf(UpdateApis) :
          /\ formatCalls = 1
          /\ calls[u].body = updatedBody
          /\ updatedBody = updateCommentBody(commentInput)
          /\ commentInput.currentBody = comment.body
          /\ \E g \in CallsOf(GetApis), b \in CallsOf({"checkAndDeleteEmptyBranch"}) :
                /\ g < b /\ b < u
                /\ calls[g].result = "ok"
                /\ calls[b].result = "ok"
    /\ pc = "exited" =>
          (exitCode = 0 <=> \E u \in CallsOf(UpdateApis) : calls[u].result = "ok")

\* C10: every run ends in process.exit with status 0 or 1; at most one
\* update call is issued; the status is 0 exactly when that call was issued
\* and succeeded, which happens only after a successful fetch, the branch
\* check and one formatter call; the body sent is the formatter's result.
C10_RunOutcome == [](C10_Safety) /\ <>(pc = "exited")

C10_Witness ==
    /\ pc = "exited"
    /\ exitCode = 0
    /\ formatCalls = 1
    /\ UpdateIssued

-----------------------------------------------------------------------------
(* The formatter on its own: inputs, one call, and a call on its own output *)

\* pieces of comment bodies: the placeholder with and without its spinner,
\* prose, a mention, the legacy links, and a job link line of the new format
Fragments ==
    { <<Working>>,
      <<Working, Spinner>>,
      <<NL>>,
      <<"Some comment">>,
      <<"### Todo List:">>,
      <<"I'll work on this task ", At, "testuser">>,
      LegacyJobLink,
      LegacyBranchLink("branch-name"),
      JobLinkLine(JobUrl) }

\* the bodies made of at most n fragments
BodiesUpTo(n) == {Flatten(q) : q \in SeqsUpTo(Fragments, n)}

Remainders == {0, 1, 999, 1000, 14000, 31033, 59999}

Durations == {-1, 0} \cup {m * 60000 + r : m \in 0..MaxMinutes, r \in Remainders}

AllDetails ==
    {NullDetails, Details(FALSE, 0)} \cup {Details(TRUE, ms) : ms \in Durations}

InputsOver(bodies, details) ==
    [currentBody : bodies,
     actionFailed : BOOLEAN,
     executionDetails : details,
     jobUrl : {JobUrl},
     branchLink : {<<>>, LegacyBranchLink("branch-name")},
     branchName : {None, "claude-branch-123"},
     triggerUsername : {None, "trigger-user"}]

\* every body with a few execution details, every execution details with
\* the bodies of at most one fragment
Inputs ==
    InputsOver(BodiesUpTo(MaxFrags), {NullDetails, Details(TRUE, 65000)})
        \cup InputsOver(BodiesUpTo(1), AllDetails)

DriverOff ==
    /\ pc = "off"
    /\ env = [isPREvent |-> FALSE, commentId |-> 0, claudeBranch |-> None,
              CLAUDE_SUCCESS |-> None, triggerUsername |-> None]
    /\ comment = NoComment
    /\ isPRReviewComment = FALSE
    /\ branchInfo = [shouldDeleteBranch |-> FALSE, branchLink |-> <<>>]
    /\ executionDetails = NullDetails
    /\ actionFailed = FALSE
    /\ outputFile = UnreadFile
    /\ readThrew = FALSE
    /\ commentInput = NoInput
    /\ updatedBody = <<>>
    /\ formatCalls = 0
    /\ calls = <<>>
    /\ exitCode = -1

FmtInit ==
    /\ DriverOff
    /\ fin \in Inputs
    /\ fout = <<>>
    /\ fpc = "input"

\* const result = updateCommentBody(input)
Format ==
    /\ fpc = "input"
    /\ fout' = updateCommentBody(fin)
    /\ fpc' = "formatted"
    /\ UNCHANGED <<fin, driverVars>>

\* the result fed back as currentBody, every other fact the same
Reformat ==
    /\ fpc = "formatted"
    /\ \E input \in {[fin EXCEPT !.currentBody = fout]} :
          /\ fin' = input
          /\ fout' = updateCommentBody(input)
    /\ fpc' = "reformatted"
    /\ UNCHANGED driverVars

FmtNext == Format \/ Reformat

FmtSpec == FmtInit /\ [][FmtNext]_vars

-----------------------------------------------------------------------------
(* Properties of the formatter *)

Atoms(s) == {s[i] : i \in 1..Len(s)}

\* the first line of a text
HeaderLine(out) ==
    LET n == IndexOf(out, NL)
    IN IF n = 0 THEN out ELSE SubSeq(out, 1, n - 1)

\* whether the input carries a positive duration_ms
DurationKnown(input) ==
    /\ ~input.executionDetails.isNull
    /\ input.executionDetails.has_duration_ms
    /\ input.executionDetails.duration_ms > 0

\* the value of a digit, and of a run of digits read as a decimal number
DigitValue(c) == CHOOSE v \in 0..9 : DigitChars[v + 1] = c

RECURSIVE ParseNat(_)
ParseNat(ds) ==
    IF ds = <<>> THEN 0
    ELSE ParseNat(SubSeq(ds, 1, Len(ds) - 1)) * 10 + DigitValue(ds[Len(ds)])

IsNumber(ds) == ds # <<>> /\ \A i \in 1..Len(ds) : ds[i] \in Atoms(DigitChars)

\* the users mentioned in a body, and those mentioned from index i on
MentionedFrom(body, i) ==
    {body[k + 1] : k \in {k \in i..(Len(body) - 1) :
                             body[k] = At /\ body[k + 1] \in WordAtoms}}

\* C5: the job link line for jobUrl occurs exactly once in the output, and
\* no legacy "[View job run](" link is left in it.
C5_OneJobLinkLine ==
    fpc # "input" =>
        /\ Count(fout, JobLinkLine(fin.jobUrl)) = 1
        /\ JobRunOpen \notin Atoms(fout)

\* C6: the formatter run on its own output with the same facts gives an
\* output with exactly one job link line, at most one branch bullet line
\* and one header.
C6_ReapplicationDuplicatesNothing ==
    fpc = "reformatted" =>
        /\ Count(fout, JobLinkLine(fin.jobUrl)) = 1
        /\ Count(fout, <<BulletOpen>>) <= 1
        /\ Count(fout, <<FinishedOpen>>) + Count(fout, <<ErrorOpen>>) = 1

\* C7: with a positive duration_ms the header line ends in a duration clause
\* (" in " for success, " after " for failure) that reads "{ms / 1000}s"
\* below one minute and "{ms / 60000}m {(ms mod 60000) / 1000}s" from one
\* minute on, the seconds in 0..59; without one the header line holds no
\* " in " and no " after ".
C7_DurationFormat ==
    fpc # "input" =>
        LET h == HeaderLine(fout)
            ms == fin.executionDetails.duration_ms
            k == IndexOf(h, IF fin.actionFailed THEN AfterClause ELSE InClause)
            d == SubSeq(h, k + 1, Len(h) - 1)
            m == IndexOf(d, "m")
        IN IF DurationKnown(fin)
           THEN /\ k > 0
                /\ h[Len(h)] = Bold
                /\ d[Len(d)] = "s"
                /\ IF ms < 60000
                   THEN /\ m = 0
                        /\ IsNumber(SubSeq(d, 1, Len(d) - 1))
                        /\ ParseNat(SubSeq(d, 1, Len(d) - 1)) = ms \div 1000
                   ELSE /\ m > 1
                        /\ d[m + 1] = " "
                        /\ IsNumber(SubSeq(d, 1, m - 1))
                        /\ ParseNat(SubSeq(d, 1, m - 1)) = ms \div 60000
                        /\ IsNumber(SubSeq(d, m + 2, Len(d) - 1))
                        /\ ParseNat(SubSeq(d, m + 2, Len(d) - 1))
                               = (ms % 60000) \div 1000
                        /\ ParseNat(SubSeq(d, m + 2, Len(d) - 1)) \in 0..59
           ELSE /\ InClause \notin Atoms(h)
                /\ AfterClause \notin Atoms(h)

C7_Witness ==
    /\ fpc = "formatted"
    /\ fin.executionDetails.duration_ms = 119999
    /\ DurationKnown(fin)
    /\ OccursAt(fout, <<InClause, "1", "m", " ", "5", "9", "s", Bold>>, 3)

\* the header the facts select
HeaderSelected ==
    LET h == HeaderLine(fout)
        body == fin.currentBody
        clause == IF fin.actionFailed THEN AfterClause ELSE InClause
    IN /\ h # <<>>
       /\ h[Len(h)] = Bold
       /\ DurationKnown(fin) <=> clause \in Atoms(h)
       /\ IF fin.actionFailed
          THEN /\ h[1] = ErrorOpen
               /\ FinishedOpen \notin Atoms(h)
               /\ ~DurationKnown(fin) => h = <<ErrorOpen, Bold>>
               /\ DurationKnown(fin) => h[2] = AfterClause
          ELSE /\ h[1] = FinishedOpen
               /\ ErrorOpen \notin Atoms(h)
               /\ fin.triggerUsername # None =>
                     SubSeq(h, 2, 4) = <<At, fin.triggerUsername, UserTask>>
               /\ (fin.triggerUsername = None
                      /\ MentionedFrom(body, PlaceholderEnd(body) + 1) # {}) =>
                     /\ h[2] = At
                     /\ h[3] \in MentionedFrom(body, 1)
                     /\ h[4] = UserTask
               /\ (fin.triggerUsername = None /\ MentionedFrom(body, 1) = {}) =>
                     h[2] = TheTask
               /\ DurationKnown(fin) => h[Len(h) - Len(DurationStr(fin.executionDetails)) - 1]
                                            = InClause

\* C8: the header is the one actionFailed, the resolved username and the
\* duration select; exactly one header occurs in the output; the working
\* placeholder does not occur in it.
C8_HeaderSelection ==
    fpc # "input" =>
        /\ HeaderSelected
        /\ Count(fout, <<FinishedOpen>>) + Count(fout, <<ErrorOpen>>) = 1
        /\ Working \notin Atoms(fout)

\* s is t with some atoms left out
RECURSIVE IsSubsequence(_, _)
IsSubsequence(s, t) ==
    IF s = <<>> THEN TRUE
    ELSE IF t = <<>> THEN FALSE
    ELSE IF Head(s) = Head(t) THEN IsSubsequence(Tail(s), Tail(t))
    ELSE IsSubsequence(s, Tail(t))

\* atoms no stripped placeholder or legacy link is made of
KeptAtoms ==
    {"Some comment", "### Todo List:", "I'll work on this task ", At, Sep,
     JobOpen, BulletOpen, BulletMid, FinishedOpen, ErrorOpen, UserTask, TheTask,
     InClause, AfterClause, Bold, "s", "m", " "} \cup UserNames

\* the branch the input names: branchName, else the name after "/tree/"
NamedBranch(input) ==
    IF input.branchName # None THEN input.branchName
    ELSE IF input.branchLink = <<>> THEN None
    ELSE input.branchLink[Len(input.branchLink) - 1]

\* C9: the output is the header line, the job link line, the branch bullet
\* line when a branch is named, one blank line, the "---" line, and then
\* what is kept of currentBody in its order; the first "---" comes after
\* the header and before all kept content.
C9_AssemblyOrder ==
    fpc # "input" =>
        LET h == HeaderLine(fout)
            job == JobLinkLine(fin.jobUrl)
            afterJob == Len(h) + 1 + Len(job) + 1
            branch == NamedBranch(fin)
            afterLinks == IF branch = None THEN afterJob
                          ELSE afterJob + 1 + Len(BranchLine(fin.jobUrl, branch))
            sep == IndexOf(fout, Sep)
            rest == SubSeq(fout, sep + 2, Len(fout))
        IN /\ fout[1] \in {FinishedOpen, ErrorOpen}
           /\ OccursAt(fout, <<NL>> \o job, Len(h) + 1)
           /\ branch # None =>
                 /\ OccursAt(fout, <<NL, BulletOpen, branch, BulletMid>>, afterJob)
                 /\ fout[afterLinks - 2] = branch
                 /\ fout[afterLinks - 1] = Close
           /\ branch = None => BulletOpen \notin Atoms(SubSeq(fout, 1, sep))
           /\ OccursAt(fout, <<NL, NL, Sep, NL>>, afterLinks)
           /\ sep = afterLinks + 2
           /\ fout[sep - 3] # NL
           /\ 1 < sep
           /\ IsSubsequence(rest, fin.currentBody)
           /\ Filter(rest, KeptAtoms) = Filter(fin.currentBody, KeptAtoms)

C9_Witness ==
    /\ fpc = "formatted"
    /\ fin.branchName = "claude-branch-123"
    /\ fin.currentBody = <<Working, "### Todo List:">>
    /\ fout[Len(fout)] = "### Todo List:"
    /\ fout[Len(fout) - 2] = Sep

=============================================================================
